---- MODULE Spec2Model ----
(***************************************************************************)
(* chordbase: the music-theory core (Interval, Note, Scale, Chord,         *)
(* ChordWithBase).  Every operation of the library is a pure function; it  *)
(* is modelled as an operator computed the way the JavaScript computes it, *)
(* and driven by small pipelines (input -> call -> call ...) whose         *)
(* positions are recorded in pc.                                           *)
(*                                                                         *)
(* JavaScript strings are sequences of one-character strings, so that the  *)
(* chord-ID codec and the note parser work on the text they really get.    *)
(* A Note's accidental string is kept as its net count (#sharps - #flats), *)
(* the only thing the code ever reads from it.                             *)
(***************************************************************************)
EXTENDS Integers, Sequences, FiniteSets, TLC

VARIABLES pc, inp, out

vars == <<pc, inp, out>>

(***************************************************************************)
(* Bounds of the checked input spaces.                                     *)
(***************************************************************************)
MaxNum == 9
MaxAcc == 2
MaxOct == 1

(***************************************************************************)
(* JavaScript values and arithmetic.                                       *)
(***************************************************************************)
\* NaN: the number that `undefined + n` yields.  A reserved integer that no
\* computation of the model reaches otherwise.
NaN == -1000000

\* The "value" of a numeric expression whose evaluation threw a TypeError:
\* a second reserved integer, which every later operation passes on.
Thrown == -2000000

IsNum(x) == x # NaN /\ x # Thrown

Plus(a, b) == IF a = Thrown \/ b = Thrown THEN Thrown
              ELSE IF a = NaN \/ b = NaN THEN NaN
              ELSE a + b

Minus(a, b) == IF a = Thrown \/ b = Thrown THEN Thrown
               ELSE IF a = NaN \/ b = NaN THEN NaN
               ELSE a - b

\* JavaScript's % : the remainder takes the sign of the dividend.
JsMod(a, b) == IF a >= 0 THEN a % b ELSE 0 - ((0 - a) % b)

\* Math.floor(a / b), b > 0.
Floor(a, b) == a \div b

Digits == <<"0", "1", "2", "3", "4", "5", "6", "7", "8", "9">>

IsDigit(c) == \E d \in 1..10 : Digits[d] = c

DigitVal(c) == (CHOOSE d \in 1..10 : Digits[d] = c) - 1

\* String(n) for an integer n >= 0.
RECURSIVE NumToStr(_)
NumToStr(n) == IF n < 10 THEN <<Digits[n + 1]>>
               ELSE NumToStr(n \div 10) \o <<Digits[(n % 10) + 1]>>

\* The longest run of digits of s that starts at position i (1-based).
RECURSIVE DigitRun(_, _)
DigitRun(s, i) == IF i <= Len(s) /\ IsDigit(s[i])
                  THEN <<s[i]>> \o DigitRun(s, i + 1)
                  ELSE <<>>

RECURSIVE DigitsToNum(_, _)
DigitsToNum(ds, acc) == IF ds = <<>> THEN acc
                        ELSE DigitsToNum(Tail(ds), 10 * acc + DigitVal(Head(ds)))

\* parseInt(s, 10) of a string without sign or leading blanks.
ParseInt(s) == LET ds == DigitRun(s, 1)
               IN IF ds = <<>> THEN NaN ELSE DigitsToNum(ds, 0)

\* s.substring(k) / s.slice(k), k >= 0.
Substring(s, k) == IF k >= Len(s) THEN <<>> ELSE SubSeq(s, k + 1, Len(s))

\* Number(str) for the strings met here: digits only, or not a number.
ToNumber(str) ==
  IF str = <<>> THEN 0
  ELSE IF \A k \in 1..Len(str) : IsDigit(str[k]) THEN DigitsToNum(str, 0)
  ELSE NaN

\* c.repeat(k)
RECURSIVE Repeat(_, _)
Repeat(c, k) == IF k <= 0 THEN <<>> ELSE <<c>> \o Repeat(c, k - 1)

Includes(seq, x) == \E k \in 1..Len(seq) : seq[k] = x

(***************************************************************************)
(* Interval                                                                *)
(***************************************************************************)
\* The table `intervals` of toSemitones/add/subtract, indexed from 0; an index
\* outside it reads `undefined`, which is NaN in the arithmetic that follows.
SemitoneTable == <<0, 2, 4, 5, 7, 9, 11>>

TableAt(idx) == IF idx \in 0..6 THEN SemitoneTable[idx + 1] ELSE NaN

\* new Interval(number, quality) with numeric arguments.
Interval(number, quality) ==
  [number  |-> number,
   quality |-> IF IsNum(quality) /\ (quality <= -12 \/ quality >= 12)
               THEN JsMod(quality, 12) ELSE quality]

IntervalToSemitones(i) ==
  Plus(Plus(TableAt(JsMod(i.number - 1, 7)), i.quality),
       Floor(i.number - 1, 7) * 12)

\* "Normalize quality to within the range [-6, 6]"
NormalizeQuality(q) == IF ~IsNum(q) THEN q
                       ELSE IF q > 6 THEN q - 12
                       ELSE IF q < -6 THEN q + 12
                       ELSE q

IntervalAdd(a, b) ==
  LET newNumber  == a.number + b.number - 1
      semitones  == Plus(IntervalToSemitones(a), IntervalToSemitones(b))
      newQuality == Minus(semitones, TableAt(JsMod(newNumber - 1, 7)))
  IN Interval(newNumber, NormalizeQuality(newQuality))

IntervalSubtract(a, b) ==
  LET newNumber  == a.number + 1 - b.number
      semitones  == Minus(IntervalToSemitones(a), IntervalToSemitones(b))
      newQuality == Minus(semitones, TableAt(JsMod(newNumber - 1, 7)))
  IN Interval(newNumber, NormalizeQuality(newQuality))

\* (number % 7) in [1, 4, 5]: the perfect-class degrees
IsPerfectClass(number) == JsMod(number, 7) \in {1, 4, 5}

\* Interval.toString(): the quality letter, then the number.
QualityLetter(i) ==
  IF i.quality = 1 THEN "A"
  ELSE IF IsPerfectClass(i.number) THEN (IF i.quality = -1 THEN "D" ELSE "P")
  ELSE IF i.quality = -2 THEN "D"
  ELSE IF i.quality = -1 THEN "m"
  ELSE "M"

IntervalToString(i) == <<QualityLetter(i)>> \o NumToStr(i.number)

\* qualityMap[qualityChar] || 0, for either class of degree
QualityOfLetter(number, qualityChar) ==
  IF IsPerfectClass(number)
  THEN (IF qualityChar = "A" THEN 1 ELSE IF qualityChar = "D" THEN -1 ELSE 0)
  ELSE (IF qualityChar = "m" THEN -1
        ELSE IF qualityChar = "A" THEN 1
        ELSE IF qualityChar = "D" THEN -2
        ELSE 0)

IntervalOfParts(number, qualityChar) ==
  Interval(number, QualityOfLetter(number, qualityChar))

\* Interval.strToInterval(intervalStr), intervalStr a letter and digits
StrToInterval(intervalStr) ==
  IntervalOfParts(ParseInt(Substring(intervalStr, 1)), intervalStr[1])

(***************************************************************************)
(* Note                                                                    *)
(*                                                                         *)
(* A value computed once in the code and read several times is handed on   *)
(* as a parameter of the operator that models the lines reading it.        *)
(***************************************************************************)
\* A note name is a letter and the net count of its accidental string; the
\* names of Note.NOTES, indexed from 0 as in the code.
Name(letter, acc) == [letter |-> letter, acc |-> acc]

NOTES == <<Name("C", 0), Name("C", 1), Name("D", 0), Name("D", 1),
           Name("E", 0), Name("F", 0), Name("F", 1), Name("G", 0),
           Name("G", 1), Name("A", 0), Name("A", 1), Name("B", 0)>>

\* What NOTES[idx] reads outside the array.
UndefinedName == Name("undefined", 0)

NotesAt(idx) == IF idx \in 0..11 THEN NOTES[idx + 1] ELSE UndefinedName

\* indexOf: the first of the (1-based) positions `hits`, from 0; -1 for none.
FirstIndex(hits) ==
  IF hits = {} THEN -1 ELSE (CHOOSE k \in hits : \A j \in hits : k <= j) - 1

\* Note.NOTES.indexOf(name)
NotesIndexOf(name) == FirstIndex({k \in 1..12 : NOTES[k] = name})

\* "CDEFGAB".indexOf(letter) and "CDEFGAB"[idx]
Letters == <<"C", "D", "E", "F", "G", "A", "B">>

LettersIndexOf(letter) == FirstIndex({k \in 1..7 : Letters[k] = letter})

LettersAt(idx) == IF idx \in 0..6 THEN Letters[idx + 1] ELSE ""

\* new Note(name, octave); name[0] of undefined throws a TypeError, and the
\* note that was to be built is then this marker.
NoteThrown == [letter |-> "TypeError", acc |-> 0, octave |-> 0]

Note(name, octave) ==
  IF name = UndefinedName THEN NoteThrown
  ELSE [letter |-> name.letter, acc |-> name.acc, octave |-> octave]

NoOptions == [favor |-> "natural", force |-> FALSE, letter |-> ""]

\* {letter: l}: favor and force are read as undefined.
LetterOption(l) == [favor |-> "undefined", force |-> FALSE, letter |-> l]

\* name + "#" and name + "b"; "undefined#" is a name whose first character,
\* the letter, is "u" and whose accidental string holds one '#'.
AppendSharp(name) ==
  IF name = UndefinedName THEN Name("u", 1) ELSE Name(name.letter, name.acc + 1)

AppendFlat(name) ==
  IF name = UndefinedName THEN Name("u", -1) ELSE Name(name.letter, name.acc - 1)

\* (baseIndex + accidentalCount) % 12
ShiftedIndex(n) == JsMod(NotesIndexOf(Name(n.letter, 0)) + n.acc, 12)

\* if (diff > 6) diff -= 12; else if (diff < -6) diff += 12
WrapDiff(diff) == IF diff > 6 THEN diff - 12
                  ELSE IF diff < -6 THEN diff + 12
                  ELSE diff

\* The branch `if (letter)`: named is NOTES[shiftedIndex].
SpellAsLetter(letter, named, diff) ==
  IF diff # 0 THEN Name(letter, diff) ELSE named

\* favor === "flat" && enharmonicNote.includes("#"); of undefined, includes
\* throws, and the undefined name makes the note thrown below as well.
FavorFlat(options, shiftedIndex, named) ==
  IF options.favor = "flat" /\ named.acc > 0
  THEN AppendFlat(NotesAt(JsMod(shiftedIndex + 1, 12)))
  ELSE named

\* The branch `if (force)`.
ForceSpelling(options, shiftedIndex, name) ==
  IF options.force /\ options.favor = "sharp"
       /\ name \in {Name("C", 0), Name("F", 0)}
  THEN AppendSharp(NotesAt(JsMod(shiftedIndex - 1, 12)))
  ELSE IF options.force /\ options.favor = "flat"
            /\ name \in {Name("B", 0), Name("E", 0)}
  THEN AppendFlat(NotesAt(JsMod(shiftedIndex + 1, 12)))
  ELSE name

Respell(options, shiftedIndex, named) ==
  IF options.letter # ""
  THEN SpellAsLetter(options.letter, named,
         WrapDiff(JsMod(shiftedIndex - NotesIndexOf(Name(options.letter, 0)), 12)))
  ELSE ForceSpelling(options, shiftedIndex,
                     FavorFlat(options, shiftedIndex, named))

\* "B#" decrements the octave, "Cb" increments it; then new Note(..).
CorrectOctave(name, octave) ==
  Note(name, IF name = Name("B", 1) THEN octave - 1
             ELSE IF name = Name("C", -1) THEN octave + 1
             ELSE octave)

EnharmonicAt(n, options, shiftedIndex) ==
  CorrectOctave(Respell(options, shiftedIndex, NotesAt(shiftedIndex)), n.octave)

EnharmonicEquiv(n, options) ==
  IF n = NoteThrown THEN NoteThrown ELSE EnharmonicAt(n, options, ShiftedIndex(n))

\* What strToNote returns for a string its pattern does not match.
NullNote == [letter |-> "null", acc |-> 0, octave |-> 0]

\* get midi / _getMidiValue; reading .midi of null throws.
Midi(n) ==
  IF n = NoteThrown \/ n = NullNote THEN Thrown
  ELSE 12 * (n.octave + 1) + (NotesIndexOf(Name(n.letter, 0)) + n.acc)

SemitonesOf(equivThis, octave) ==
  IF equivThis = NoteThrown THEN Thrown
  ELSE NotesIndexOf(Name(equivThis.letter, equivThis.acc)) + octave * 12 + 12

NoteToSemitones(n) == SemitonesOf(EnharmonicEquiv(n, NoOptions), n.octave)

\* The pattern /([A-Ga-g]+)([0-9]+)/ of strToNote, unanchored: the leftmost
\* position from which a run of the letters is followed by a digit.
IsNoteLetter(c) ==
  c \in {"A", "B", "C", "D", "E", "F", "G", "a", "b", "c", "d", "e", "f", "g"}

RECURSIVE LetterRun(_, _)
LetterRun(s, i) == IF i <= Len(s) /\ IsNoteLetter(s[i])
                   THEN <<s[i]>> \o LetterRun(s, i + 1)
                   ELSE <<>>

CountOf(s, c) == Cardinality({k \in 1..Len(s) : s[k] = c})

\* new Note(match[1], parseInt(match[2], 10))
NoteOfMatch(name, digits) ==
  Note(Name(Head(name), CountOf(Tail(name), "#") - CountOf(Tail(name), "b")),
       ParseInt(digits))

MatchNoteAt(s, name, p) == NoteOfMatch(name, DigitRun(s, p + Len(name)))

FirstNoteMatch(s, starts) ==
  IF starts = {} THEN NullNote
  ELSE MatchNoteAt(s, LetterRun(s, FirstIndex(starts) + 1), FirstIndex(starts) + 1)

StrToNote(s) ==
  FirstNoteMatch(s, {p \in 1..Len(s) :
                       /\ LetterRun(s, p) # <<>>
                       /\ DigitRun(s, p + Len(LetterRun(s, p))) # <<>>})

\* Note.intToNote(num): NOTES[NaN] and NOTES[negative] are undefined.
IntToNote(num) ==
  IF num = Thrown THEN NoteThrown
  ELSE IF num = NaN THEN NoteThrown
  ELSE Note(NotesAt(JsMod(num, 12)), Floor(num, 12) - 1)

NoteAdd(n, interval) ==
  EnharmonicEquiv(
    IntToNote(Plus(NoteToSemitones(n), IntervalToSemitones(interval))),
    LetterOption(LettersAt(JsMod(LettersIndexOf(n.letter) + interval.number - 1, 7))))

\* this.subtract(other); a TypeError thrown on the way is IntervalThrown.
IntervalThrown == [number |-> Thrown, quality |-> Thrown]

\* quality = chromaticDifference - baseSemitones; new Interval(..)
SubtractQuality(diatonicInterval, octaveDifference, chromaticDifference) ==
  Interval(diatonicInterval,
           Minus(chromaticDifference,
                 Plus(TableAt(JsMod(diatonicInterval - 1, 7)),
                      octaveDifference * 12)))

SubtractOctaves(selfIndex, otherIndex, octaveDifference, chromaticDifference) ==
  SubtractQuality(JsMod(selfIndex - otherIndex, 7) + 1 + octaveDifference * 7,
                  octaveDifference, chromaticDifference)

SubtractLetters(self, other, selfIndex, otherIndex, chromaticDifference) ==
  IF chromaticDifference = Thrown THEN IntervalThrown
  ELSE SubtractOctaves(selfIndex, otherIndex,
         (self.octave - other.octave) - (IF selfIndex < otherIndex THEN 1 ELSE 0),
         chromaticDifference)

NoteSubtract(self, other) ==
  SubtractLetters(self, other,
                  LettersIndexOf(self.letter), LettersIndexOf(other.letter),
                  Minus(NoteToSemitones(self), NoteToSemitones(other)))

(***************************************************************************)
(* Scale                                                                   *)
(***************************************************************************)
\* intervals.sort((a, b) => a.number - b.number || a.quality - b.quality):
\* a stable sort, as Array.prototype.sort is.  A difference that is NaN is
\* falsy on the left of || and counts as 0 as the comparator's result.
IntervalBefore(a, b) ==
  IF IsNum(a.number) /\ IsNum(b.number) /\ a.number # b.number
  THEN a.number < b.number
  ELSE IsNum(a.quality) /\ IsNum(b.quality) /\ a.quality < b.quality

RECURSIVE InsertInterval(_, _)
InsertInterval(sorted, x) ==
  IF sorted = <<>> THEN <<x>>
  ELSE IF IntervalBefore(x, Head(sorted)) THEN <<x>> \o sorted
  ELSE <<Head(sorted)>> \o InsertInterval(Tail(sorted), x)

RECURSIVE SortIntervals(_)
SortIntervals(seq) ==
  IF seq = <<>> THEN <<>>
  ELSE InsertInterval(SortIntervals(SubSeq(seq, 1, Len(seq) - 1)), seq[Len(seq)])

\* new Scale(base, ...intervals)
Scale(base, intervals) == [base |-> base, intervals |-> SortIntervals(intervals)]

SCALES == <<"major", "natural minor", "harmonic minor", "melodic minor",
            "major pentatonic scale", "minor pentatonic scale", "blues scale">>

\* base followed by base.add(interval) for each interval (Scale.notes and
\* Chord.notes are the same loop).
NotesFrom(base, intervals) ==
  <<base>> \o [k \in 1..Len(intervals) |-> NoteAdd(base, intervals[k])]

ScaleNotes(scale) == NotesFrom(scale.base, scale.intervals)

\* Flatten with the indices taken as 1-based.
FlattenFromOne(intervals, indices) ==
  [k \in 1..Len(intervals) |->
     IF k \in indices
     THEN [number |-> intervals[k].number, quality |-> -1]
     ELSE intervals[k]]

\* [..].forEach(i => { scale.intervals[i].quality = -1 }), indices from 0
Flatten(intervals, indices) ==
  [k \in 1..Len(intervals) |->
     IF (k - 1) \in indices
     THEN [number |-> intervals[k].number, quality |-> -1]
     ELSE intervals[k]]

\* scale.intervals.filter((_, i) => ![..].includes(i)), indices from 0
RECURSIVE DropIndices(_, _, _)
DropIndices(intervals, indices, i) ==
  IF intervals = <<>> THEN <<>>
  ELSE (IF i \in indices THEN <<>> ELSE <<Head(intervals)>>)
       \o DropIndices(Tail(intervals), indices, i + 1)

\* [...Array(6).keys()].map(i => new Interval(i+2, 0))
MajorTemplate == [i \in 1..6 |-> Interval(i + 1, 0)]

\* DefaultScale handing back the major template.
DefaultScaleOfTemplate(base) == Scale(base, MajorTemplate)

\* default: return new Scale(base)
DefaultScale(base) == Scale(base, <<>>)

\* The switch of generateScale on the template scale.
ApplyRecipe(name, scale, base) ==
  LET with(ints) == [base |-> scale.base, intervals |-> ints]
  IN CASE name = "major" -> scale
       [] name = "natural minor" -> with(Flatten(scale.intervals, {1, 4, 5}))
       [] name = "harmonic minor" -> with(Flatten(scale.intervals, {1, 4}))
       [] name = "melodic minor" -> with(Flatten(scale.intervals, {1}))
       [] name = "major pentatonic scale" ->
            with(DropIndices(scale.intervals, {2, 5}, 0))
       [] name = "minor pentatonic scale" ->
            with(DropIndices(Flatten(scale.intervals, {1, 5}), {0, 4}, 0))
       [] name = "blues scale" ->
            with(SortIntervals(
                   Append(DropIndices(Flatten(scale.intervals, {1, 5}), {0, 4}, 0),
                          Interval(4, 1))))
       [] OTHER -> DefaultScale(base)

GenerateScale(name, base) == ApplyRecipe(name, Scale(base, MajorTemplate), base)

\* n.toSemitones() % 12, as findMatchingScales computes it
Mod12(t) == IF t = Thrown THEN Thrown ELSE JsMod(t, 12)

SemitonesMod12(n) == Mod12(NoteToSemitones(n))

\* notes.map(n => n.toSemitones() % 12)
PitchClasses(notes) == [j \in 1..Len(notes) |-> SemitonesMod12(notes[j])]

(***************************************************************************)
(* Chord and ChordWithBase                                                 *)
(***************************************************************************)
\* new Chord(...intervals): the constructor sorts.
Chord(intervals) == SortIntervals(intervals)

\* new ChordWithBase(base, ...intervals)
ChordWithBase(base, intervals) == [base |-> base, intervals |-> Chord(intervals)]

\* this.notes() of a ChordWithBase
ChordNotes(chord) == NotesFrom(chord.base, chord.intervals)

\* The quality tags and Chord.MAINS; MainsOf of any other tag is undefined,
\* here the empty table.
Dim == <<"d", "i", "m">>

Min == <<"m", "i", "n">>

Dom == <<"d", "o", "m">>

Maj == <<"m", "a", "j">>

Aug == <<"a", "u", "g">>

MainsOf(quality) ==
  CASE quality = Dim -> <<<<"P", "1">>, <<"m", "3">>, <<"D", "5">>, <<"D", "7">>,
                          <<"M", "9">>, <<"P", "1", "1">>, <<"M", "1", "3">>>>
    [] quality = Min -> <<<<"P", "1">>, <<"m", "3">>, <<"P", "5">>, <<"m", "7">>,
                          <<"M", "9">>, <<"P", "1", "1">>, <<"M", "1", "3">>>>
    [] quality = Dom -> <<<<"P", "1">>, <<"M", "3">>, <<"P", "5">>, <<"m", "7">>,
                          <<"M", "9">>, <<"P", "1", "1">>, <<"M", "1", "3">>>>
    [] quality = Maj -> <<<<"P", "1">>, <<"M", "3">>, <<"P", "5">>, <<"M", "7">>,
                          <<"M", "9">>, <<"P", "1", "1">>, <<"M", "1", "3">>>>
    [] OTHER -> <<>>

\* Chord.MAINS[quality][idx], undefined (the empty string here) outside
MainsAt(quality, idx) ==
  IF idx \in 0..6 /\ MainsOf(quality) # <<>> THEN MainsOf(quality)[idx + 1] ELSE <<>>

\* Object.values(Chord.MAINS).map(m => m[i])
MainColumn(i) == {MainsAt(Dim, i), MainsAt(Min, i), MainsAt(Dom, i), MainsAt(Maj, i)}

\* this.intervals.map(i => String(i))
StringsOf(intervals) == [k \in 1..Len(intervals) |-> IntervalToString(intervals[k])]

ChordQualityOf(strs) ==
  IF Includes(strs, <<"m", "3">>)
  THEN (IF Includes(strs, <<"D", "5">>) /\ Includes(strs, <<"D", "7">>)
        THEN Dim ELSE Min)
  ELSE IF Includes(strs, <<"M", "7">>) THEN Maj
  ELSE Dom

ChordQuality(intervals) == ChordQualityOf(StringsOf(intervals))

ChordSusOf(strs) ==
  IF ~Includes(strs, <<"m", "3">>) /\ ~Includes(strs, <<"M", "3">>)
       /\ Includes(strs, <<"M", "2">>)
  THEN <<"s", "u", "s", "2">>
  ELSE IF Includes(strs, <<"M", "4">>) THEN <<"s", "u", "s", "4">>
  ELSE <<>>

ChordSus(intervals) == ChordSusOf(StringsOf(intervals))

\* Math.max() of no argument
NegInfinity == -3000000

\* i => i % 2 as a filter test: the Interval converts to a number through
\* its toString(), and NaN and 0 are falsy.
RemainderIsTruthy(i) ==
  /\ IsNum(ToNumber(IntervalToString(i)))
  /\ JsMod(ToNumber(IntervalToString(i)), 2) # 0

\* Math.max(...values)
RECURSIVE MathMax(_)
MathMax(values) ==
  IF values = <<>> THEN NegInfinity
  ELSE IF ~IsNum(Head(values)) \/ MathMax(Tail(values)) = NaN THEN NaN
  ELSE IF Head(values) > MathMax(Tail(values)) THEN Head(values)
  ELSE MathMax(Tail(values))

\* switch (notes)
StructureName(notes) ==
  CASE notes = 1 -> "unison"
    [] notes = 3 -> "third"
    [] notes = 5 -> "triad"
    [] notes = 7 -> "seventh"
    [] notes = 9 -> "ninth"
    [] notes = 11 -> "eleventh"
    [] notes = 13 -> "thirteenth"
    [] OTHER -> ""

QualitiesOf(intervals) == [k \in 1..Len(intervals) |-> intervals[k].quality]

ChordStructure(intervals) ==
  IF Len(intervals) = 1 /\ IntervalToString(intervals[1]) = <<"P", "5">>
  THEN "power"
  ELSE StructureName(MathMax(QualitiesOf(SelectSeq(intervals, RemainderIsTruthy))))

\* A plain number standing where an Interval is expected: its .number and
\* .quality read undefined, NaN in arithmetic.
NotAnInterval == [number |-> NaN, quality |-> NaN]

PlainNumber(v) == NotAnInterval

\* The number an element converts to in `i - newset[0]`: an Interval has no
\* valueOf and converts through its toString(); the plain numbers met here are
\* NaN.
ValueOf(x) ==
  IF ~IsNum(x.number) THEN NaN ELSE ToNumber(IntervalToString(x))

\* Math.floor((number - 1) / 7) + 1
NewOctave(number) ==
  IF IsNum(number) THEN Floor(number - 1, 7) + 1 ELSE NaN

\* new Interval(7 * newOctave + 1, 0)
NewTop(newOctave) ==
  Interval(IF IsNum(newOctave) THEN 7 * newOctave + 1 ELSE NaN, 0)

\* newset.slice(1).map(i => i - newset[0])
RelativeToLowest(newset) ==
  [k \in 1..(Len(newset) - 1) |->
     PlainNumber(Minus(ValueOf(newset[k + 1]), ValueOf(newset[1])))]

\* cycle(intervals)
Cycle(intervals) ==
  RelativeToLowest(Append(intervals, NewTop(NewOctave(intervals[Len(intervals)].number))))

\* The loop of inversions(): newints after n more turns, without its first
\* element.
RECURSIVE CycleOn(_, _)
CycleOn(last, n) ==
  IF n = 0 THEN <<>> ELSE <<last>> \o CycleOn(Cycle(last), n - 1)

\* Chord.inversions()
Inversions(intervals) ==
  IF intervals = <<>> THEN <<>>
  ELSE [k \in 1..Len(intervals) |->
          Chord(CycleOn(Cycle(intervals), Len(intervals))[k])]

\* ChordWithBase.inversions(): ls[i] rooted at this.notes()[i]
RootedInversionsOf(notes, ls) ==
  [k \in 1..Len(ls) |-> [base |-> notes[k], intervals |-> Chord(ls[k])]]

RootedInversions(chord) ==
  RootedInversionsOf(ChordNotes(chord), Inversions(chord.intervals))

\* intervals.filter(i => i.number % 2 === 1)
OddIntervals(intervals) ==
  SelectSeq(intervals, LAMBDA i : IsNum(i.number) /\ JsMod(i.number, 2) = 1)

\* Math.max(...oddIntervals.map(i => i.number))
HighestOddNumber(oddIntervals) ==
  MathMax([k \in 1..Len(oddIntervals) |-> oddIntervals[k].number])

\* currentIntervals.filter(i => i.number !== highestOdd)
WithoutNumber(intervals, number) ==
  SelectSeq(intervals, LAMBDA i : i.number # number)

\* The while loop of simplifications(), from currentIntervals on.
RECURSIVE SimplifyFrom(_, _)
SimplifyStep(base, next) ==
  <<ChordWithBase(base, next)>> \o SimplifyFrom(base, next)

SimplifyFrom(base, currentIntervals) ==
  IF Len(currentIntervals) <= 1 \/ OddIntervals(currentIntervals) = <<>> THEN <<>>
  ELSE SimplifyStep(base, WithoutNumber(currentIntervals,
                            HighestOddNumber(OddIntervals(currentIntervals))))

\* ChordWithBase.simplifications()
Simplifications(chord) == SimplifyFrom(chord.base, chord.intervals)

\* notesInChord.map(note => note.subtract(baseNote)) of the window i..j
WindowIntervals(notes, i, j) ==
  [k \in 1..(j - i + 1) |-> NoteSubtract(notes[i + k - 1], notes[i])]

\* if (!dic[key]) dic[key] = []; dic[key].push(chord)
FileChord(dic, key, chord) ==
  IF key \in DOMAIN dic
  THEN [dic EXCEPT ![key] = Append(@, chord)]
  ELSE (key :> <<chord>>) @@ dic

\* The body of the inner loop of subchords().
FileWindow(dic, baseNote, intervals) ==
  FileChord(dic, intervals[Len(intervals)].number,
            ChordWithBase(baseNote, Tail(intervals)))

\* The pairs (i, j) in the order of the two loops, counted from 1.
RECURSIVE WindowsFrom(_, _, _)
WindowsFrom(i, j, n) ==
  IF i >= n THEN <<>>
  ELSE IF j > n THEN WindowsFrom(i + 1, i + 2, n)
  ELSE <<(<<i, j>>)>> \o WindowsFrom(i, j + 1, n)

RECURSIVE FileWindows(_, _, _)
FileWindows(notes, windows, dic) ==
  IF windows = <<>> THEN dic
  ELSE FileWindows(notes, Tail(windows),
         FileWindow(dic, notes[Head(windows)[1]],
                    WindowIntervals(notes, Head(windows)[1], Head(windows)[2])))

\* What subchords() returns; ok is FALSE when notes() or a subtract threw.
SubchordsThrown == [ok |-> FALSE, dic |-> <<>>]

SubchordsOf(notes) ==
  IF \/ Includes(notes, NoteThrown)
     \/ Len(notes) >= 2 /\ \E k \in 1..Len(notes) : NoteToSemitones(notes[k]) = Thrown
  THEN SubchordsThrown
  ELSE [ok |-> TRUE, dic |-> FileWindows(notes, WindowsFrom(1, 2, Len(notes)), <<>>)]

\* ChordWithBase.subchords()
Subchords(chord) == SubchordsOf(ChordNotes(chord))

\* ChordWithBase.transpositions()
Transpositions(chord) ==
  [k \in 1..12 |-> ChordWithBase(Note(NOTES[k], 4), chord.intervals)]

\* The loop of extensions(): last is the intervals of the last of
\* possibleChords.
RECURSIVE ExtendFrom(_, _, _, _)
ExtendWith(base, existing, rest, newIntervals) ==
  <<ChordWithBase(base, newIntervals)>>
    \o ExtendFrom(base, existing, rest, Chord(newIntervals))

ExtendFrom(base, existing, allIntervals, last) ==
  IF allIntervals = <<>> THEN <<>>
  ELSE IF Includes(existing, Head(allIntervals))
  THEN ExtendFrom(base, existing, Tail(allIntervals), last)
  ELSE ExtendWith(base, existing, Tail(allIntervals),
                  Append(last, StrToInterval(Head(allIntervals))))

\* ChordWithBase.extensions(); quality() is always a key of Chord.MAINS
Extensions(chord) ==
  ExtendFrom(chord.base, StringsOf(chord.intervals),
             Tail(MainsOf(ChordQuality(chord.intervals))), chord.intervals)

\* "Find highest matching interval": from column 6 down to 1, the first
\* interval that the column includes gives mainNumber; "1" when none does.
RECURSIVE FindMainNumber(_, _)
RECURSIVE FirstMain(_, _, _)
FirstMain(strs, i, hits) ==
  IF hits = {} THEN FindMainNumber(strs, i - 1)
  ELSE Substring(strs[FirstIndex(hits) + 1], 1)

FindMainNumber(strs, i) ==
  IF i = 0 THEN <<"1">>
  ELSE FirstMain(strs, i, {k \in 1..Len(strs) : strs[k] \in MainColumn(i)})

\* An element of alterations/additions as id() reads it back: the text of its
\* number and its quality.  new Interval(interval) with the one string
\* argument keeps the string as number and leaves quality undefined, which
\* compares like NaN.
TextToken(str) == [text |-> str, quality |-> NaN]

NumberToken(i) == [text |-> NumToStr(i.number), quality |-> i.quality]

\* (x.quality > 0 ? "#" : x.quality < 0 ? "b" : "") + x.number
RenderToken(t) ==
  (IF IsNum(t.quality) /\ t.quality > 0 THEN <<"#">>
   ELSE IF IsNum(t.quality) /\ t.quality < 0 THEN <<"b">>
   ELSE <<>>) \o t.text

IsAlteration(str, quality, number) ==
  number % 2 = 1 /\ str # MainsAt(quality, Floor(number, 2))

IsAddition(str, sus, number) ==
  number % 2 = 0 /\ Substring(sus, 3) # NumToStr(number)

TokensOf(strs) == [k \in 1..Len(strs) |-> TextToken(strs[k])]

Alterations(strs, quality) ==
  TokensOf(SelectSeq(strs,
    LAMBDA x : IsAlteration(x, quality, ParseInt(Substring(x, 1)))))

Additions(strs, sus) ==
  (IF sus = <<"s", "u", "s", "2">> /\ Includes(strs, <<"M", "4">>)
   THEN <<NumberToken(Interval(4, 0))>> ELSE <<>>)
  \o TokensOf(SelectSeq(strs,
       LAMBDA x : IsAddition(x, sus, ParseInt(Substring(x, 1)))))

\* tokens.map(render).join("")
RECURSIVE JoinTokens(_)
JoinTokens(tokens) ==
  IF tokens = <<>> THEN <<>>
  ELSE RenderToken(Head(tokens)) \o JoinTokens(Tail(tokens))

\* IdText with the major quality left out up to the 7th instead of the 5th.
IdTextPlainMajorSeventh(base, aug, sus, quality, mainNumber, alts, adds) ==
  (IF base # NullNote THEN <<base.letter>> ELSE <<>>)
  \o <<"^">>
  \o (IF aug THEN Aug ELSE <<>>)
  \o sus
  \o (IF quality = Dom \/ (quality = Maj /\ ParseInt(mainNumber) <= 7)
      THEN <<>> ELSE quality)
  \o (IF mainNumber = <<"5">> \/ mainNumber = <<"1">> THEN <<>> ELSE mainNumber)
  \o alts
  \o adds

\* Lines 110-112; base is a Note, or NullNote for null.
IdText(base, aug, sus, quality, mainNumber, alts, adds) ==
  (IF base # NullNote THEN <<base.letter>> ELSE <<>>)
  \o <<"^">>
  \o (IF aug THEN Aug ELSE <<>>)
  \o sus
  \o (IF quality = Dom \/ (quality = Maj /\ ParseInt(mainNumber) <= 5)
      THEN <<>> ELSE quality)
  \o (IF mainNumber = <<"5">> \/ mainNumber = <<"1">> THEN <<>> ELSE mainNumber)
  \o alts
  \o adds

IdParts(strs, base, sus, quality) ==
  IdText(base, Includes(strs, <<"A", "5">>), sus, quality,
         FindMainNumber(strs, 6),
         JoinTokens(Alterations(strs, quality)),
         JoinTokens(Additions(strs, sus)))

IdOfStrings(strs, base) == IdParts(strs, base, ChordSusOf(strs), ChordQualityOf(strs))

\* chord.id(base)
ChordId(intervals, base) == IdOfStrings(StringsOf(intervals), base)

\* s has the text lit at position p (1-based).
HasAt(s, p, lit) ==
  p + Len(lit) - 1 <= Len(s) /\ SubSeq(s, p, p + Len(lit) - 1) = lit

\* basePattern /^[A-G][#b]*/ ; <<>> for no match
RECURSIVE AccidentalRun(_, _)
AccidentalRun(s, i) == IF i <= Len(s) /\ s[i] \in {"#", "b"}
                       THEN <<s[i]>> \o AccidentalRun(s, i + 1)
                       ELSE <<>>

BaseMatch(s) ==
  IF Len(s) >= 1 /\ s[1] \in {"A", "B", "C", "D", "E", "F", "G"}
  THEN <<s[1]>> \o AccidentalRun(s, 2)
  ELSE <<>>

\* augPattern /aug/
AugMatch(s) == \E p \in 1..Len(s) : HasAt(s, p, Aug)

\* susPattern /(sus\d+)/ ; <<>> for no match
FirstSus(s, hits) ==
  IF hits = {} THEN <<>>
  ELSE <<"s", "u", "s">> \o DigitRun(s, FirstIndex(hits) + 4)

SusMatch(s) ==
  FirstSus(s, {p \in 1..Len(s) :
                 HasAt(s, p, <<"s", "u", "s">>) /\ DigitRun(s, p + 3) # <<>>})

\* qualityPattern /(\^min|\^maj|\^aug|\^dim|\^dom)/ , .slice(1); "dom" for none
FirstQuality(s, hits) ==
  IF hits = {} THEN Dom
  ELSE SubSeq(s, FirstIndex(hits) + 2, FirstIndex(hits) + 4)

QualityMatch(s) ==
  FirstQuality(s, {p \in 1..Len(s) :
                     /\ s[p] = "^"
                     /\ \E w \in {Min, Maj, Aug, Dim, Dom} : HasAt(s, p + 1, w)})

\* mainNumberPattern /(\d+)/ , parseInt; 5 for none
FirstNumber(s, hits) ==
  IF hits = {} THEN 5 ELSE ParseInt(DigitRun(s, FirstIndex(hits) + 1))

MainNumberMatch(s) == FirstNumber(s, {p \in 1..Len(s) : IsDigit(s[p])})

\* alterationPattern /([b#♮]\d+)/g ; the natural sign is the one-character
\* string "natural"
RECURSIVE ScanAlterations(_, _)
ScanAlterations(s, p) ==
  IF p > Len(s) THEN <<>>
  ELSE IF s[p] \in {"b", "#", "natural"} /\ DigitRun(s, p + 1) # <<>>
  THEN <<(<<s[p]>> \o DigitRun(s, p + 1))>>
       \o ScanAlterations(s, p + 1 + Len(DigitRun(s, p + 1)))
  ELSE ScanAlterations(s, p + 1)

\* additionPattern /add[b#]?\d+/g
AddLength(s, p) ==
  IF ~HasAt(s, p, <<"a", "d", "d">>) THEN 0
  ELSE IF p + 3 <= Len(s) /\ s[p + 3] \in {"b", "#"} /\ DigitRun(s, p + 4) # <<>>
  THEN 4 + Len(DigitRun(s, p + 4))
  ELSE IF DigitRun(s, p + 3) # <<>> THEN 3 + Len(DigitRun(s, p + 3))
  ELSE 0

RECURSIVE ScanAdditions(_, _)
ScanAdditions(s, p) ==
  IF p > Len(s) THEN <<>>
  ELSE IF AddLength(s, p) > 0
  THEN <<SubSeq(s, p, p + AddLength(s, p) - 1)>>
       \o ScanAdditions(s, p + AddLength(s, p))
  ELSE ScanAdditions(s, p + 1)

\* numSharps - numFlats and parseInt(tag.replace(/\D/g, "")) of a tag
TagInterval(tag) ==
  Interval(DigitsToNum(SelectSeq(tag, IsDigit), 0),
           CountOf(tag, "#") - CountOf(tag, "b"))

\* The loop over Chord.MAINS[quality]: the entries 1..n of the table, an
\* augmented 5th for "P5" when aug is set.
TableIntervals(quality, n, aug) ==
  [k \in 1..n |-> IF aug /\ MainsAt(quality, k) = <<"P", "5">>
                  THEN StrToInterval(<<"A", "5">>)
                  ELSE StrToInterval(MainsAt(quality, k))]

\* if (aug && !existing5) intervals.push(A5)
AugExtra(quality, n, aug) ==
  IF aug /\ ~(\E k \in 1..n : MainsAt(quality, k) = <<"P", "5">>)
  THEN <<StrToInterval(<<"A", "5">>)>> ELSE <<>>

\* if (sus) intervals.push(Interval.strToInterval("M" + sus.slice(3)))
SusExtra(sus) ==
  IF sus # <<>> THEN <<StrToInterval(<<"M">> \o Substring(sus, 3))>> ELSE <<>>

AdditionIntervals(additions) ==
  [k \in 1..Len(additions) |-> TagInterval(additions[k])]

\* alterations.forEach(..): an alteration that is not also an addition tag
\* removes the intervals of its degree and is pushed.
ReplaceDegree(intervals, altered) ==
  Append(SelectSeq(intervals, LAMBDA x : x.number # altered.number), altered)

RECURSIVE ApplyAlterations(_, _, _)
ApplyAlterations(intervals, alterations, additions) ==
  IF alterations = <<>> THEN intervals
  ELSE ApplyAlterations(
         IF Includes(additions, <<"a", "d", "d">> \o Head(alterations))
         THEN intervals
         ELSE ReplaceDegree(intervals, TagInterval(Head(alterations))),
         Tail(alterations), additions)

\* What idToChord returns: a Chord (base NullNote) or a ChordWithBase; ok is
\* FALSE when it threw instead.
ChordThrown == [ok |-> FALSE, base |-> NullNote, intervals |-> <<>>]

Rebuilt(base, intervals) ==
  [ok |-> TRUE,
   base |-> IF base = <<>> THEN NullNote
            ELSE Note(Name(base[1], CountOf(base, "#") - CountOf(Tail(base), "b")), 4),
   intervals |-> Chord(intervals)]

\* Chord.MAINS[quality].length throws for a quality without a table, and
\* strToInterval(undefined) throws once the loop reads past the table.
DecodeWith(base, aug, sus, quality, n, alterations, additions) ==
  IF MainsOf(quality) = <<>> \/ n >= 7 THEN ChordThrown
  ELSE Rebuilt(base,
         ApplyAlterations(TableIntervals(quality, n, aug)
                            \o AugExtra(quality, n, aug)
                            \o SusExtra(sus)
                            \o AdditionIntervals(additions),
                          alterations, additions))

IdToChord(chordid) ==
  DecodeWith(BaseMatch(chordid), AugMatch(chordid), SusMatch(chordid),
             QualityMatch(chordid), Floor(MainNumberMatch(chordid), 2),
             ScanAlterations(chordid, 1), ScanAdditions(chordid, 1))

\* chordNotes.filter(n => scaleNotes.includes(n)).length
MatchCount(chordNotes, scaleNotes) ==
  Cardinality({k \in 1..Len(chordNotes) : Includes(scaleNotes, chordNotes[k])})

\* `${note} ${scale}` for a name of Note.NOTES
MatchLabel(note, scale) ==
  note.letter \o (IF note.acc = 1 THEN "#" ELSE "") \o " " \o scale

\* FileLabel without the test for an existing group: the label starts the
\* group of its count afresh.
FileLabelAfresh(scales, proportion, label) ==
  (proportion :> <<label>>) @@ scales

\* if (!scales[proportion]) scales[proportion] = [];
\* scales[proportion].push(label)
FileLabel(scales, proportion, label) ==
  IF proportion \in DOMAIN scales
  THEN [scales EXCEPT ![proportion] = Append(@, label)]
  ELSE (proportion :> <<label>>) @@ scales

\* The key count / chordNotes.length is kept as <<count, chordNotes.length>>.
\* The result is <<>> when a toSemitones() of the turn throws.
MatchPair(chordNotes, scales, scaleNotes, label) ==
  IF Includes(scaleNotes, Thrown) THEN <<>>
  ELSE <<FileLabel(scales, <<MatchCount(chordNotes, scaleNotes), Len(chordNotes)>>,
                   label)>>

\* One turn of the inner loop of findMatchingScales.
MatchTurn(chordNotes, scales, note, scale) ==
  MatchPair(chordNotes, scales,
            PitchClasses(ScaleNotes(GenerateScale(scale, Note(note, 4)))),
            MatchLabel(note, scale))

(***************************************************************************)
(* Note arithmetic and parsing: a note and an interval, then n.add(i),     *)
(* then .subtract(n); or a note string, then strToNote, then intToNote of  *)
(* its midi.  out lists the results so far.                                *)
(***************************************************************************)
\* The octave of the default base, new Note("C", 4).
BaseOctave == 4

NoteLetters == {"C", "D", "E", "F", "G", "A", "B"}

NoteInputs == [letter : NoteLetters, acc : -MaxAcc..MaxAcc,
               octave : (BaseOctave - MaxOct)..(BaseOctave + MaxOct)]

NoteIntervalInputs == [number : 1..MaxNum, quality : -2..2]

\* <A-G><'#'* | 'b'*><digits>
NoteString(letter, acc, octave) ==
  <<letter>> \o (IF acc >= 0 THEN Repeat("#", acc) ELSE Repeat("b", 0 - acc))
             \o NumToStr(octave)

NoteStrings == {NoteString(l, a, o) :
                  l \in NoteLetters, a \in -MaxAcc..MaxAcc, o \in 0..(9 + MaxOct)}

InitNote ==
  /\ out = <<>>
  /\ \/ pc = "note" /\ inp \in [n : NoteInputs, i : NoteIntervalInputs]
     \/ pc = "string" /\ inp \in [s : NoteStrings]

DoNoteAdd ==
  /\ pc = "note"
  /\ pc' = "added"
  /\ out' = <<NoteAdd(inp.n, inp.i)>>
  /\ UNCHANGED inp

DoNoteSubtract ==
  /\ pc = "added"
  /\ pc' = "subtracted"
  /\ out' = Append(out, NoteSubtract(out[1], inp.n))
  /\ UNCHANGED inp

DoStrToNote ==
  /\ pc = "string"
  /\ pc' = "parsed"
  /\ out' = <<StrToNote(inp.s)>>
  /\ UNCHANGED inp

DoIntToNote ==
  /\ pc = "parsed"
  /\ pc' = "remade"
  /\ out' = Append(out, IntToNote(Midi(out[1])))
  /\ UNCHANGED inp

NextNote == DoNoteAdd \/ DoNoteSubtract \/ DoStrToNote \/ DoIntToNote

SpecNote == InitNote /\ [][NextNote]_vars

\* C2: n.add(i).subtract(n) is an interval with the number of i and the
\* toSemitones() of i, for every note n (any letter A..G, any octave) and
\* every interval i with number >= 1.
C2_AddSubtractRoundTrip ==
  (pc = "subtracted" /\ inp.n.acc = 0) =>
    /\ out[2] # IntervalThrown
    /\ out[2].number = inp.i.number
    /\ IntervalToSemitones(out[2]) = IntervalToSemitones(inp.i)

\* C3: strToNote(s) returns a note for every well-formed s, and
\* intToNote(strToNote(s).midi).midi == strToNote(s).midi with
\* midi = 12*(octave+1) + letter pitch class + net accidental count.
C3_MidiRoundTrip ==
  /\ pc \in {"parsed", "remade"} =>
       /\ out[1] # NullNote
       /\ out[1] # NoteThrown
  /\ pc = "remade" =>
       /\ out[2] # NoteThrown
       /\ Midi(out[2]) = Midi(out[1])

\* C18: for a note n whose letter pitch class plus net accidentals lies in
\* 0..11 and an interval i of number >= 1 and quality in [-2, 2],
\* n.add(i).midi == n.midi + i.toSemitones().
C18_AddLandsOnPitch ==
  (pc = "added" /\ NotesIndexOf(Name(inp.n.letter, 0)) + inp.n.acc \in 0..11) =>
    /\ out[1] # NoteThrown
    /\ Midi(out[1]) = Midi(inp.n) + IntervalToSemitones(inp.i)

(***************************************************************************)
(* Respelling: a note and an option bag, then enharmonicEquiv.             *)
(***************************************************************************)
OptionInputs == [favor : {"natural", "sharp", "flat"}, force : BOOLEAN,
                 letter : {""} \cup NoteLetters]

InitRespell ==
  /\ pc = "spelled"
  /\ inp \in [n : NoteInputs, options : OptionInputs]
  /\ out = <<>>

DoEnharmonicEquiv ==
  /\ pc = "spelled"
  /\ pc' = "respelled"
  /\ out' = <<EnharmonicEquiv(inp.n, inp.options)>>
  /\ UNCHANGED inp

NextRespell == DoEnharmonicEquiv

SpecRespell == InitRespell /\ [][NextRespell]_vars

\* (letter class + net accidentals) mod 12
PitchClassOf(n) == (NotesIndexOf(Name(n.letter, 0)) + n.acc) % 12

\* C17: enharmonicEquiv returns, for every note and every option bag, a note
\* of a letter A..G whose pitch class is that of the original.
C17_RespellKeepsPitchClass ==
  pc = "respelled" =>
    /\ out[1] # NoteThrown
    /\ out[1].letter \in NoteLetters
    /\ PitchClassOf(out[1]) = PitchClassOf(inp.n)

(***************************************************************************)
(* Scales: a scale name and a base, then generateScale, then notes(); or a *)
(* rooted chord, then findMatchingScales, one (root, scale) pair a step.   *)
(***************************************************************************)
ScaleNames == {SCALES[k] : k \in 1..7} \cup {"dorian", "Major", ""}

MatchChords == {<<Interval(3, 0), Interval(5, 0)>>,
                <<Interval(3, -1), Interval(5, 0)>>,
                <<Interval(3, 0), Interval(5, 0), Interval(7, -1)>>}

MatchBases == [letter : {"C", "F", "B"}, acc : -1..1, octave : {BaseOctave}]

InitScale ==
  /\ out = <<>>
  /\ \/ pc = "name" /\ inp \in [name : ScaleNames, base : NoteInputs]
     \/ pc = "chord" /\ inp \in [chord : {ChordWithBase(b, c) :
                                           b \in MatchBases, c \in MatchChords}]

DoGenerateScale ==
  /\ pc = "name"
  /\ pc' = "generated"
  /\ out' = <<GenerateScale(inp.name, inp.base)>>
  /\ UNCHANGED inp

DoScaleNotes ==
  /\ pc = "generated"
  /\ pc' = "listed"
  /\ out' = Append(out, ScaleNotes(out[1]))
  /\ UNCHANGED inp

\* const chordNotes = this.notes().map(n => n.toSemitones() % 12)
MatchChordNotes == PitchClasses(ChordNotes(inp.chord))

DoMatchStart ==
  /\ pc = "chord"
  /\ pc' = IF Includes(MatchChordNotes, Thrown) THEN "threw" ELSE "matching"
  /\ out' = [k |-> 0, scales |-> <<>>]
  /\ UNCHANGED inp

\* The k-th (from 0) pair of Note.NOTES x Scale.SCALES is filed, or throws.
MatchAdvance(turn) ==
  IF turn = <<>>
  THEN pc' = "threw" /\ UNCHANGED out
  ELSE pc' = "matching" /\ out' = [k |-> out.k + 1, scales |-> turn[1]]

DoMatchTurn ==
  /\ pc = "matching"
  /\ out.k < 12 * 7
  /\ MatchAdvance(MatchTurn(MatchChordNotes, out.scales,
                            NOTES[(out.k \div 7) + 1], SCALES[(out.k % 7) + 1]))
  /\ UNCHANGED inp

DoMatchReturn ==
  /\ pc = "matching"
  /\ out.k = 12 * 7
  /\ pc' = "matched"
  /\ UNCHANGED <<inp, out>>

NextScale ==
  DoGenerateScale \/ DoScaleNotes \/ DoMatchStart \/ DoMatchTurn \/ DoMatchReturn

SpecScale == InitScale /\ [][NextScale]_vars

C4Note == [letter |-> "C", acc |-> 0, octave |-> 4]

\* The pitch classes of each built-in scale above its root, from the theory.
ScaleSteps(name) ==
  CASE name = "major" -> {0, 2, 4, 5, 7, 9, 11}
    [] name = "natural minor" -> {0, 2, 3, 5, 7, 8, 10}
    [] name = "harmonic minor" -> {0, 2, 3, 5, 7, 8, 11}
    [] name = "melodic minor" -> {0, 2, 3, 5, 7, 9, 11}
    [] name = "major pentatonic scale" -> {0, 2, 4, 7, 9}
    [] name = "minor pentatonic scale" -> {0, 3, 5, 7, 10}
    [] name = "blues scale" -> {0, 3, 5, 6, 7, 10}

\* The pitch-class set of scale s on the r-th (from 1) chromatic root.
ScalePitchClasses(r, s) == {((r - 1) + x) % 12 : x \in ScaleSteps(SCALES[s])}

MajorTriadAtC == ChordWithBase(C4Note, <<Interval(3, 0), Interval(5, 0)>>)

\* C7: findMatchingScales on the major triad rooted at C puts each of the
\* 12 x 7 labels in exactly one group, the group keyed by the share of the
\* chord's pitch classes {0,4,7} that lie in the scale; the group of share 1
\* holds "C major" and exactly the labels of the scales that contain {0,4,7}.
C7_MatchingScalesOfMajorTriad ==
  (pc = "matched" /\ inp.chord = MajorTriadAtC) =>
    /\ \A r \in 1..12, s \in 1..7 :
         LET label == MatchLabel(NOTES[r], SCALES[s])
             share == <<Cardinality({0, 4, 7} \cap ScalePitchClasses(r, s)), 3>>
         IN /\ share \in DOMAIN out.scales
            /\ \A key \in DOMAIN out.scales :
                 Cardinality({j \in 1..Len(out.scales[key]) :
                                out.scales[key][j] = label})
                   = IF key = share THEN 1 ELSE 0
    /\ Includes(out.scales[<<3, 3>>], "C major")
    /\ \A r \in 1..12, s \in 1..7 :
         Includes(out.scales[<<3, 3>>], MatchLabel(NOTES[r], SCALES[s]))
           <=> {0, 4, 7} \subseteq ScalePitchClasses(r, s)

C7_Witness ==
  /\ pc = "matched"
  /\ inp.chord = MajorTriadAtC
  /\ Includes(out.scales[<<3, 3>>], "C major")
  /\ Includes(out.scales[<<3, 3>>], "G major")
  /\ Includes(out.scales[<<2, 3>>], "C natural minor")

\* The built-in recipes, as (degree, quality) lists.
ScaleRecipe(name) ==
  CASE name = "major" -> <<<<2, 0>>, <<3, 0>>, <<4, 0>>, <<5, 0>>, <<6, 0>>, <<7, 0>>>>
    [] name = "natural minor" ->
         <<<<2, 0>>, <<3, -1>>, <<4, 0>>, <<5, 0>>, <<6, -1>>, <<7, -1>>>>
    [] name = "harmonic minor" ->
         <<<<2, 0>>, <<3, -1>>, <<4, 0>>, <<5, 0>>, <<6, -1>>, <<7, 0>>>>
    [] name = "melodic minor" ->
         <<<<2, 0>>, <<3, -1>>, <<4, 0>>, <<5, 0>>, <<6, 0>>, <<7, 0>>>>
    [] name = "major pentatonic scale" -> <<<<2, 0>>, <<3, 0>>, <<5, 0>>, <<6, 0>>>>
    [] name = "minor pentatonic scale" -> <<<<3, -1>>, <<4, 0>>, <<5, 0>>, <<7, -1>>>>
    [] name = "blues scale" ->
         <<<<3, -1>>, <<4, 0>>, <<4, 1>>, <<5, 0>>, <<7, -1>>>>

IsBuiltIn(name) == \E k \in 1..7 : SCALES[k] = name

\* C8: generateScale(name, base) is the major template changed by the recipe
\* of the name, on the given base, and generateScale("natural minor",
\* C4).notes() has the pitch classes {0,2,3,5,7,8,10}.
C8_ScaleRecipes ==
  /\ (pc \in {"generated", "listed"} /\ IsBuiltIn(inp.name)) =>
       /\ out[1].base = inp.base
       /\ out[1].intervals =
            [k \in 1..Len(ScaleRecipe(inp.name)) |->
               [number  |-> ScaleRecipe(inp.name)[k][1],
                quality |-> ScaleRecipe(inp.name)[k][2]]]
  /\ (pc = "listed" /\ inp.name = "natural minor" /\ inp.base = C4Note) =>
       {SemitonesMod12(out[2][k]) : k \in 1..Len(out[2])} = {0, 2, 3, 5, 7, 8, 10}

C8_Witness ==
  /\ pc = "listed"
  /\ inp.name = "natural minor"
  /\ inp.base = C4Note
  /\ Len(out[2]) = 7
  /\ out[2][3] = [letter |-> "E", acc |-> -1, octave |-> 4]

IdThrown == <<"TypeError">>

Qualities == {Dim, Min, Dom, Maj}

\* The chords of the chord-ID grammar: the first `top` table degrees of one
\* quality above the root, an augmented 5th or not, a sus interval or none,
\* an addition or none, an alteration or none.
GrammarChord(quality, top, aug, sus, add, alt) ==
  Chord(ApplyAlterations(TableIntervals(quality, top, aug)
                           \o AugExtra(quality, top, aug) \o sus \o add,
                         alt, <<>>))

SusChoices == {<<>>, <<Interval(2, 0)>>, <<Interval(4, 0)>>}

AddChoices == {<<>>, <<Interval(6, 0)>>, <<Interval(9, 0)>>}

AltChoices == {<<>>, <<<<"b", "5">>>>, <<<<"b", "9">>>>, <<<<"#", "9">>>>,
               <<<<"#", "1", "1">>>>, <<<<"b", "1", "3">>>>}

GrammarChords ==
  {GrammarChord(q, top, aug, sus, add, alt) :
     q \in Qualities, top \in 0..6, aug \in BOOLEAN,
     sus \in SusChoices, add \in AddChoices, alt \in AltChoices}

\* Chords outside the grammar: a lone perfect 5th, a lone unison, a major 2nd
\* under an augmented 3rd, a lone 3rd, a perfect with an augmented 5th.
OtherChords == {<<Interval(5, 0)>>, <<Interval(1, 0)>>,
                <<Interval(2, 0), Interval(3, 1)>>, <<Interval(3, 0)>>,
                <<Interval(5, 0), Interval(5, 1)>>}

ChordInputs == GrammarChords \cup OtherChords

ChordBases == {NullNote, [letter |-> "C", acc |-> 0, octave |-> BaseOctave],
               [letter |-> "F", acc |-> 1, octave |-> BaseOctave]}

\* <root?>^<aug?><sus?><quality?><mainNumber?>
IdTexts ==
  {root \o <<"^">> \o aug \o sus \o quality \o main :
     root \in {<<>>, <<"C">>}, aug \in {<<>>, Aug},
     sus \in {<<>>, <<"s", "u", "s", "2">>, <<"s", "u", "s", "4">>},
     quality \in {<<>>, Dim, Min, Dom, Maj},
     main \in {<<>>, <<"7">>, <<"1", "3">>}}

InitChord ==
  /\ out = <<>>
  /\ \/ pc = "chord" /\ inp \in [chord : ChordInputs, base : ChordBases]
     \/ pc = "text" /\ inp \in [id : IdTexts]

DoQuality ==
  /\ pc = "chord"
  /\ pc' = "classified"
  /\ out' = <<ChordQuality(inp.chord)>>
  /\ UNCHANGED inp

DoSus ==
  /\ pc = "chord"
  /\ pc' = "suspended"
  /\ out' = <<ChordSus(inp.chord)>>
  /\ UNCHANGED inp

DoStructure ==
  /\ pc = "chord"
  /\ pc' = "structured"
  /\ out' = <<ChordStructure(inp.chord)>>
  /\ UNCHANGED inp

DoId ==
  /\ pc = "chord"
  /\ pc' = "encoded"
  /\ out' = <<ChordId(inp.chord, inp.base)>>
  /\ UNCHANGED inp

DoIdToChord ==
  /\ pc = "encoded"
  /\ pc' = "decoded"
  /\ out' = Append(out, IdToChord(out[1]))
  /\ UNCHANGED inp

DoIdAgain ==
  /\ pc = "decoded"
  /\ pc' = "reencoded"
  /\ out' = Append(out, IF out[2].ok THEN ChordId(out[2].intervals, inp.base)
                        ELSE IdThrown)
  /\ UNCHANGED inp

DoIdToChordOfText ==
  /\ pc = "text"
  /\ pc' = "parsed"
  /\ out' = <<IdToChord(inp.id)>>
  /\ UNCHANGED inp

NextChord ==
  \/ DoQuality \/ DoSus \/ DoStructure
  \/ DoId \/ DoIdToChord \/ DoIdAgain \/ DoIdToChordOfText

SpecChord == InitChord /\ [][NextChord]_vars

\* C1: for every chord of the chord-ID grammar and every base (or none),
\* idToChord(chord.id(base)) succeeds and its id(base) is chord.id(base).
C1_ChordIdRoundTrip ==
  /\ pc \in {"decoded", "reencoded"} => out[2].ok
  /\ pc = "reencoded" => out[3] = out[1]

\* The chord of exactly the table entries of quality q from the 3rd up to
\* degree d.
CanonicalChord(q, d) ==
  Chord([k \in 1..(d \div 2) |-> StrToInterval(MainsOf(q)[k + 1])])

\* C4: the canonical chord of quality q up to degree d in {7, 9, 11, 13} has
\* quality() = q and, rooted at a note of letter L, the id
\* L ^ (q, unless dom) d with nothing after it; {m3,P5,m7} at C is "C^min7".
C4_CanonicalChordIds ==
  \A q \in Qualities, d \in {7, 9, 11, 13} :
    /\ (pc = "classified" /\ inp.chord = CanonicalChord(q, d)) => out[1] = q
    /\ (pc = "encoded" /\ inp.chord = CanonicalChord(q, d)) =>
         out[1] = (IF inp.base = NullNote THEN <<>> ELSE <<inp.base.letter>>)
                    \o <<"^">> \o (IF q = Dom THEN <<>> ELSE q) \o NumToStr(d)

C4_Witness ==
  /\ pc = "encoded"
  /\ inp.chord = <<Interval(3, -1), Interval(5, 0), Interval(7, -1)>>
  /\ inp.base = [letter |-> "C", acc |-> 0, octave |-> 4]
  /\ out[1] = <<"C", "^", "m", "i", "n", "7">>

\* The texts "zero or more '#' (positive quality) or 'b' (negative quality),
\* then the degree" of an interval: no sign for quality 0, else 1..|quality|.
TokenTexts(i) ==
  {Repeat(IF i.quality > 0 THEN "#" ELSE "b", n) \o NumToStr(i.number) :
     n \in (IF i.quality = 0 THEN {0}
            ELSE 1..(IF i.quality > 0 THEN i.quality ELSE 0 - i.quality))}

RECURSIVE TokenTails(_)
TokenTails(intervals) ==
  IF intervals = <<>> THEN {<<>>}
  ELSE {t \o r : t \in TokenTexts(Head(intervals)), r \in TokenTails(Tail(intervals))}

EndsWith(s, tail) ==
  Len(tail) <= Len(s) /\ SubSeq(s, Len(s) - Len(tail) + 1, Len(s)) = tail

\* C5: id() ends with one token for every odd-degree interval whose spelling
\* is not the table entry expected for quality(), then one token for every
\* even-degree interval that sus does not consume, each token (#|b)*<degree>.
C5_AlterationAndAdditionTokens ==
  pc = "encoded" =>
    LET quality == ChordQuality(inp.chord)
        sus     == ChordSus(inp.chord)
        altered == SelectSeq(inp.chord, LAMBDA i :
                     /\ i.number % 2 = 1
                     /\ IntervalToString(i) # MainsAt(quality, i.number \div 2))
        added   == SelectSeq(inp.chord, LAMBDA i :
                     /\ i.number % 2 = 0
                     /\ sus # <<"s", "u", "s">> \o NumToStr(i.number))
    IN \E tail \in TokenTails(altered \o added) : EndsWith(out[1], tail)

HasAugFlag(id) ==
  \E p \in 1..Len(id) : id[p] = "^" /\ HasAt(id, p + 1, Aug)

\* C6: idToChord of a chord-ID with the aug flag right after '^' returns a
\* chord, and that chord holds an augmented 5th and no perfect 5th.
C6_AugFlagDecodes ==
  /\ (pc = "parsed" /\ HasAugFlag(inp.id)) =>
       /\ out[1].ok
       /\ Includes(out[1].intervals, Interval(5, 1))
       /\ ~Includes(out[1].intervals, Interval(5, 0))
  /\ (pc = "decoded" /\ HasAugFlag(out[1])) =>
       /\ out[2].ok
       /\ Includes(out[2].intervals, Interval(5, 1))
       /\ ~Includes(out[2].intervals, Interval(5, 0))

HasDegree(intervals, number) ==
  \E k \in 1..Len(intervals) : intervals[k].number = number

\* C11: sus() is "sus2" for a chord with no 3rd and a major 2nd, otherwise
\* "sus4" for a chord that holds the 4th of quality 0 (the interval idToChord
\* builds for a sus4 tag), otherwise the empty tag.
C11_SusClassification ==
  pc = "suspended" =>
    out[1] = IF ~HasDegree(inp.chord, 3) /\ Includes(inp.chord, Interval(2, 0))
             THEN <<"s", "u", "s", "2">>
             ELSE IF Includes(inp.chord, Interval(4, 0)) THEN <<"s", "u", "s", "4">>
             ELSE <<>>

\* The highest odd degree among the intervals, 0 for none.
HighestOdd(intervals) ==
  LET odd == {intervals[k].number : k \in 1..Len(intervals)}
               \cap {1, 3, 5, 7, 9, 11, 13}
  IN IF odd = {} THEN 0 ELSE CHOOSE n \in odd : \A m \in odd : m <= n

\* C12: structure() is "power" for a lone perfect 5th and otherwise names the
\* highest odd degree among the intervals: 1 unison, 3 third, 5 triad,
\* 7 seventh, 9 ninth, 11 eleventh, 13 thirteenth.
C12_StructureClassification ==
  (pc = "structured" /\ HighestOdd(inp.chord) # 0) =>
    out[1] = IF inp.chord = <<Interval(5, 0)>> THEN "power"
             ELSE CASE HighestOdd(inp.chord) = 1 -> "unison"
                    [] HighestOdd(inp.chord) = 3 -> "third"
                    [] HighestOdd(inp.chord) = 5 -> "triad"
                    [] HighestOdd(inp.chord) = 7 -> "seventh"
                    [] HighestOdd(inp.chord) = 9 -> "ninth"
                    [] HighestOdd(inp.chord) = 11 -> "eleventh"
                    [] HighestOdd(inp.chord) = 13 -> "thirteenth"

(***************************************************************************)
(* Rooted chords: a ChordWithBase, then one of its operations.             *)
(***************************************************************************)
RootedBases == {[letter |-> "C", acc |-> 0, octave |-> BaseOctave],
                [letter |-> "G", acc |-> 0, octave |-> BaseOctave]}

RootedChords ==
  {ChordWithBase(b, c) : b \in RootedBases, c \in ChordInputs \cup {<<>>}}

InitRooted ==
  /\ pc = "rooted"
  /\ inp \in [chord : RootedChords]
  /\ out = <<>>

DoInversions ==
  /\ pc = "rooted"
  /\ pc' = "inverted"
  /\ out' = <<RootedInversions(inp.chord)>>
  /\ UNCHANGED inp

DoSimplifications ==
  /\ pc = "rooted"
  /\ pc' = "simplified"
  /\ out' = <<Simplifications(inp.chord)>>
  /\ UNCHANGED inp

DoSubchords ==
  /\ pc = "rooted"
  /\ pc' = "windowed"
  /\ out' = <<Subchords(inp.chord)>>
  /\ UNCHANGED inp

NextRooted == DoInversions \/ DoSimplifications \/ DoSubchords

SpecRooted == InitRooted /\ [][NextRooted]_vars

\* A well-formed Interval: a positive integer number and an integer quality.
WellFormedInterval(i) == IsNum(i.number) /\ i.number >= 1 /\ IsNum(i.quality)

\* The chord after one inversion step: a new top an octave up is appended,
\* the lowest interval dropped, the rest taken relative to the dropped one.
InvertedOnce(intervals) ==
  LET top    == intervals[Len(intervals)]
      newset == Append(intervals, Interval(7 * (((top.number - 1) \div 7) + 1) + 1, 0))
  IN Chord([k \in 1..(Len(newset) - 1) |-> IntervalSubtract(newset[k + 1], newset[1])])

RECURSIVE InvertedTimes(_, _)
InvertedTimes(intervals, k) ==
  IF k = 0 THEN intervals ELSE InvertedOnce(InvertedTimes(intervals, k - 1))

\* C13: inversions() of a chord of N intervals returns N chords, the k-th the
\* (k-1)-th inverted once, each of N well-formed intervals, and rooted at the
\* note that became the lowest.
C13_Inversions ==
  pc = "inverted" =>
    LET n == Len(inp.chord.intervals)
    IN /\ Len(out[1]) = n
       /\ \A k \in 1..n :
            /\ Len(out[1][k].intervals) = n
            /\ \A j \in 1..n : WellFormedInterval(out[1][k].intervals[j])
            /\ out[1][k].intervals = InvertedTimes(inp.chord.intervals, k)
            /\ out[1][k].base = ChordNotes(inp.chord)[k + 1]

\* The intervals without the last of their odd-numbered ones.
WithoutHighestOdd(intervals) ==
  LET last == CHOOSE k \in 1..Len(intervals) :
                /\ intervals[k].number % 2 = 1
                /\ \A j \in (k + 1)..Len(intervals) : intervals[j].number % 2 = 0
  IN SubSeq(intervals, 1, last - 1) \o SubSeq(intervals, last + 1, Len(intervals))

HasOdd(intervals) == \E k \in 1..Len(intervals) : intervals[k].number % 2 = 1

\* C14: simplifications() returns a chain on the chord's base in which each
\* chord is its predecessor (the chord itself for the first) without its
\* highest odd-numbered interval, no chord has fewer than one interval, and
\* the chain ends where one interval, or no odd-numbered one, remains.
C14_Simplifications ==
  pc = "simplified" =>
    LET chain   == out[1]
        pred(k) == IF k = 1 THEN inp.chord.intervals ELSE chain[k - 1].intervals
        final   == pred(Len(chain) + 1)
    IN /\ \A k \in 1..Len(chain) :
            /\ chain[k].base = inp.chord.base
            /\ Len(chain[k].intervals) >= 1
            /\ HasOdd(pred(k))
            /\ chain[k].intervals = WithoutHighestOdd(pred(k))
       /\ Len(final) <= 1 \/ ~HasOdd(final)

\* The pitch of a note in semitones and its place on the staff in steps.
PitchOf(n) ==
  12 * (n.octave + 1) + n.acc
    + (CASE n.letter = "C" -> 0 [] n.letter = "D" -> 2 [] n.letter = "E" -> 4
         [] n.letter = "F" -> 5 [] n.letter = "G" -> 7 [] n.letter = "A" -> 9
         [] n.letter = "B" -> 11)

StepOf(n) ==
  7 * n.octave
    + (CASE n.letter = "C" -> 0 [] n.letter = "D" -> 1 [] n.letter = "E" -> 2
         [] n.letter = "F" -> 3 [] n.letter = "G" -> 4 [] n.letter = "A" -> 5
         [] n.letter = "B" -> 6)

\* The interval from the note low up to the note high.
TrueInterval(low, high) ==
  LET steps == StepOf(high) - StepOf(low)
  IN [number  |-> steps + 1,
      quality |-> (PitchOf(high) - PitchOf(low))
                    - (SemitoneTable[(steps % 7) + 1] + 12 * (steps \div 7))]

\* The chord of the window i..j of the pitch list p, and all of them.
TrueSubchord(p, i, j) ==
  [base |-> p[i],
   intervals |-> SortIntervals([k \in 1..(j - i) |-> TrueInterval(p[i], p[i + k])])]

SubchordCount(dic) ==
  LET RECURSIVE Sum(_)
      Sum(keys) == IF keys = {} THEN 0
                   ELSE LET k == CHOOSE x \in keys : TRUE
                        IN Len(dic[k]) + Sum(keys \ {k})
  IN Sum(DOMAIN dic)

\* C15: subchords() of a rooted chord with pitch list p holds one chord for
\* every window i < j, rooted at p[i], with the true intervals from p[i] to
\* p[i+1..j], filed under the degree from p[i] to p[j].
C15_Subchords ==
  pc = "windowed" =>
    LET p == ChordNotes(inp.chord)
    IN /\ out[1].ok
       /\ SubchordCount(out[1].dic) = (Len(p) * (Len(p) - 1)) \div 2
       /\ \A i \in 1..Len(p), j \in 1..Len(p) :
            i < j =>
              /\ TrueInterval(p[i], p[j]).number \in DOMAIN out[1].dic
              /\ Includes(out[1].dic[TrueInterval(p[i], p[j]).number],
                          TrueSubchord(p, i, j))

(***************************************************************************)
(* Everything that returns a Chord, a ChordWithBase or a Scale: the        *)
(* constructors on intervals in any order, generateScale, idToChord and    *)
(* the operations of a rooted chord.                                       *)
(***************************************************************************)
UnsortedIntervals == {Interval(2, 0), Interval(3, -1), Interval(3, 0),
                      Interval(5, 0), Interval(7, -1)}

UnsortedInputs ==
  UNION {[1..n -> UnsortedIntervals] : n \in 0..3}

SortedRooted ==
  {ChordWithBase(b, c) :
     b \in RootedBases,
     c \in OtherChords
            \cup {GrammarChord(q, top, FALSE, <<>>, <<>>, alt) :
                    q \in Qualities, top \in 0..6, alt \in AltChoices}}

InitSorted ==
  /\ out = <<>>
  /\ \/ pc = "unsorted" /\ inp \in [intervals : UnsortedInputs, base : RootedBases]
     \/ pc = "name" /\ inp \in [name : ScaleNames, base : MatchBases]
     \/ pc = "text" /\ inp \in [id : IdTexts]
     \/ pc = "rooted" /\ inp \in [chord : SortedRooted]

DoNewChord ==
  /\ pc = "unsorted"
  /\ pc' = "built"
  /\ out' = <<ChordWithBase(inp.base, inp.intervals)>>
  /\ UNCHANGED inp

DoNewScale ==
  /\ pc = "unsorted"
  /\ pc' = "laid"
  /\ out' = <<Scale(inp.base, inp.intervals)>>
  /\ UNCHANGED inp

DoExtensions ==
  /\ pc = "rooted"
  /\ pc' = "extended"
  /\ out' = <<Extensions(inp.chord)>>
  /\ UNCHANGED inp

DoTranspositions ==
  /\ pc = "rooted"
  /\ pc' = "transposed"
  /\ out' = <<Transpositions(inp.chord)>>
  /\ UNCHANGED inp

NextSorted ==
  \/ DoNewChord \/ DoNewScale \/ DoGenerateScale \/ DoIdToChordOfText
  \/ DoInversions \/ DoSubchords \/ DoSimplifications
  \/ DoExtensions \/ DoTranspositions

SpecSorted == InitSorted /\ [][NextSorted]_vars

\* Ascending by (number, quality): every neighbour pair has numbers that
\* compare and is in order, by the qualities where the numbers are equal.
SortedIntervals(intervals) ==
  \A k \in 1..(Len(intervals) - 1) :
    /\ IsNum(intervals[k].number) /\ IsNum(intervals[k + 1].number)
    /\ \/ intervals[k].number < intervals[k + 1].number
       \/ /\ intervals[k].number = intervals[k + 1].number
          /\ IsNum(intervals[k].quality) /\ IsNum(intervals[k + 1].quality)
          /\ intervals[k].quality <= intervals[k + 1].quality

AllSorted(chords) == \A k \in 1..Len(chords) : SortedIntervals(chords[k].intervals)

\* C16: the intervals of every Chord, ChordWithBase and Scale that a
\* constructor or an operation returns are sorted ascending by
\* (number, quality).
C16_Sortedness ==
  /\ pc \in {"built", "laid", "generated"} => SortedIntervals(out[1].intervals)
  /\ (pc = "parsed" /\ out[1].ok) => SortedIntervals(out[1].intervals)
  /\ pc \in {"inverted", "simplified", "extended", "transposed"} => AllSorted(out[1])
  /\ (pc = "windowed" /\ out[1].ok) =>
       \A key \in DOMAIN out[1].dic : AllSorted(out[1].dic[key])

(***************************************************************************)
(* Interval arithmetic: a pair of intervals, then a.add(b) or              *)
(* a.subtract(b).                                                          *)
(***************************************************************************)
IntervalInputs == [number : 1..MaxNum, quality : -6..6]

InitInterval ==
  /\ pc = "pair"
  /\ inp \in [a : IntervalInputs, b : IntervalInputs]
  /\ out = <<>>

DoIntervalAdd ==
  /\ pc = "pair"
  /\ pc' = "added"
  /\ out' = <<IntervalAdd(inp.a, inp.b)>>
  /\ UNCHANGED inp

DoIntervalSubtract ==
  /\ pc = "pair"
  /\ pc' = "subtracted"
  /\ out' = <<IntervalSubtract(inp.a, inp.b)>>
  /\ UNCHANGED inp

NextInterval == DoIntervalAdd \/ DoIntervalSubtract

SpecInterval == InitInterval /\ [][NextInterval]_vars

\* C10: a.add(b) has number a.number + b.number - 1 and a.toSemitones() +
\* b.toSemitones() semitones, a.subtract(b) (a.number >= b.number) has number
\* a.number + 1 - b.number and a.toSemitones() - b.toSemitones() semitones, and
\* the quality of either result lies in [-6, 6].
C10_IntervalArithmeticExact ==
  /\ pc = "added" =>
       /\ out[1].number = inp.a.number + inp.b.number - 1
       /\ IntervalToSemitones(out[1]) =
            IntervalToSemitones(inp.a) + IntervalToSemitones(inp.b)
       /\ out[1].quality \in -6..6
  /\ (pc = "subtracted" /\ inp.a.number >= inp.b.number) =>
       /\ out[1].number = inp.a.number + 1 - inp.b.number
       /\ IntervalToSemitones(out[1]) =
            IntervalToSemitones(inp.a) - IntervalToSemitones(inp.b)
       /\ out[1].quality \in -6..6

====
